---- MODULE Spec2Model ----
(***************************************************************************)
(* geneticalgorithm2: the elitist genetic algorithm of                     *)
(* src/geneticalgorithm2/geneticalgorithm2.py as a state machine.          *)
(*                                                                         *)
(* One engine object (the fields set by __init__) and calls of run() on    *)
(* it.  run() is followed statement block by statement block: the program  *)
(* counter pc names the block that runs next.  Every value numpy draws at  *)
(* random is an input of the action that draws it.                         *)
(*                                                                         *)
(* A row of the population is the numpy row of the code: dim genes and,    *)
(* in the last slot, the fitness.  Indices of the code are 0-based; the    *)
(* sequences here are 1-based, so row k of the code is pop[k + 1].         *)
(***************************************************************************)
EXTENDS Integers, Sequences, FiniteSets, TLC

(***************************************************************************)
(* Inputs and bounds of the model.                                         *)
(***************************************************************************)
\* The largest max_num_iteration tried.
MaxIter == 3

\* variable_boundaries: one [lower, upper] pair per variable, all 'int'
\* (the shape of the test script, which uses [[0,10]]*3).
var_bound == << <<1, 2>>, <<0, 1>> >>

dim == Len(var_bound)

\* np.random.random() returns a float in [0, 1).  The probabilities and the
\* draws compared with them are counted in quarters: the draws 0, 1/4, 3/4,
\* the probabilities 0, 1/2, 1.
Random == {0, 1, 3}
Probabilities == {0, 2, 4}

\* The objective function of the test script: f(X) = np.sum(X).  (The field
\* f of the engine says whether every call of it returns this number.)
RECURSIVE SumSeq(_)
SumSeq(s) ==
  IF s = << >> THEN 0
  ELSE IF Len(s) = 1 THEN s[1]
  ELSE LET h == Len(s) \div 2
       IN SumSeq(SubSeq(s, 1, h)) + SumSeq(SubSeq(s, h + 1, Len(s)))

f(X) == SumSeq(X)

\* A variant of GeneRange: the draw reaches one below the lower bound.
BelowLowerBound(i) == (var_bound[i][1] - 1)..var_bound[i][2]

\* Every gene vector inside the box of var_bound.
GeneRange(i) == var_bound[i][1]..var_bound[i][2]

Box == {v \in [1..dim -> UNION {GeneRange(i) : i \in 1..dim}] :
          \A i \in 1..dim : v[i] \in GeneRange(i)}

(***************************************************************************)
(* Rows and populations.                                                   *)
(***************************************************************************)
Genes(row) == SubSeq(row, 1, dim)
Fitness(row) == row[dim + 1]
Row(x, score) == x \o <<score>>

\* pop[:, self.dim]: the fitness column.
Scores(p) == [i \in 1..Len(p) |-> Fitness(p[i])]

\* A variant of SortByFitness: the rows stay where they are.
LeftInPlace(p) == p

\* The place of row i among the rows in ascending order of fitness, a row
\* behind the rows of equal fitness that stand before it.
Place(p, i) ==
  Cardinality({j \in 1..Len(p) :
                 \/ Fitness(p[j]) < Fitness(p[i])
                 \/ (Fitness(p[j]) = Fitness(p[i]) /\ j <= i)})

\* A variant of SortByFitness: the rows in descending order of fitness.
SortDescending(p) ==
  [k \in 1..Len(p) |-> p[CHOOSE i \in 1..Len(p) : Place(p, i) = Len(p) + 1 - k]]

\* pop[pop[:, self.dim].argsort()]: the rows in ascending order of fitness.
\* numpy sorts arrays of up to 16 rows by insertion, which keeps equal rows
\* in order; the longer populations followed have no two equal scores.
SortByFitness(p) ==
  [k \in 1..Len(p) |-> p[CHOOSE i \in 1..Len(p) : Place(p, i) = k]]

IsSorted(p) == \A i \in 1..(Len(p) - 1) : Fitness(p[i]) <= Fitness(p[i + 1])

\* np.mean of a column, kept exact as <<sum, count>>.
Mean(col) == <<SumSeq(col), Len(col)>>

(***************************************************************************)
(* __init__: the derived sizes.  A ratio is <<numerator, denominator>>.    *)
(***************************************************************************)
\* self.par_s: int(parents_portion * pop_s), plus one when that leaves an odd
\* number of offspring.
ParS(population_size, parents_portion) ==
  LET p == (parents_portion[1] * population_size) \div parents_portion[2]
  IN IF (population_size - p) % 2 # 0 THEN p + 1 ELSE p

\* self.num_elit: one elite at least when elit_ratio > 0.
NumElit(population_size, elit_ratio) ==
  LET whole == (elit_ratio[1] * population_size) \div elit_ratio[2]
  IN IF elit_ratio[1] * population_size < elit_ratio[2] /\ elit_ratio[1] > 0
     THEN 1 ELSE whole

\* self.mniwi: max_iteration_without_improv, or iterate + 1 when it is None
\* (written 0 here) or below 1.
Mniwi(iterate, max_iteration_without_improv) ==
  IF max_iteration_without_improv < 1 THEN iterate + 1
  ELSE max_iteration_without_improv

(***************************************************************************)
(* Selection: each strategy takes the fitness column and the number of     *)
(* parents wanted and gives the indices (0-based) it can return, or fails. *)
(***************************************************************************)
Returned(indexes) == [ok |-> TRUE, idx |-> indexes, exception |-> ""]
Raised(exception) == [ok |-> FALSE, idx |-> << >>, exception |-> exception]

MaxOf(s) == CHOOSE m \in {s[i] : i \in 1..Len(s)} : \A i \in 1..Len(s) : s[i] <= m

\* Selection.__inverse_scores: the smallest score gets the largest weight.
InverseScores(scores) ==
  LET minobj == scores[1]
      normobj == [i \in 1..Len(scores) |->
                    IF minobj < 0 THEN scores[i] - minobj ELSE scores[i]]
  IN [i \in 1..Len(scores) |-> (MaxOf(normobj) + 1) - normobj[i]]

\* Selection.fully_random: np.random.choice(np.arange(parents_count),
\* parents_count, replace = False), a permutation of 0..parents_count-1.
FullyRandom(scores, parents_count) ==
  {Returned(s) : s \in {q \in [1..parents_count -> 0..(parents_count - 1)] :
                          \A i, j \in 1..parents_count : i # j => q[i] # q[j]}}

\* Selection.__roulette: np.searchsorted(cumprob, r) is the first index whose
\* cumulative weight reaches the draw r, so an index is returned when its
\* weight is positive (index 0 also for r = 0); when rounding leaves the last
\* cumulative weight below r, an index below the last one is drawn instead.
RouletteWheel(weights, parents_count) ==
  {Returned(s) : s \in [1..parents_count ->
                          {i - 1 : i \in {j \in 1..Len(weights) : weights[j] > 0 \/ j = 1}}]}

Roulette(scores, parents_count) == RouletteWheel(InverseScores(scores), parents_count)

\* Selection.stochastic, its loop for one offset r.  Lengths are counted in
\* units of 1/(4 * parents_count): the step fN is 4, the offset r0 is a draw of
\* Random, and a weight w is 4 * parents_count * w.
RECURSIVE StochasticLoop(_, _, _, _, _, _)
StochasticLoop(w, parents_count, k, acc, r, parents) ==
  IF Len(parents) >= parents_count THEN Returned(parents)
  ELSE IF k + 1 > Len(w) THEN Raised("IndexError")
  ELSE LET acc2 == acc + 4 * parents_count * w[k + 1]
           n == Cardinality({j \in 0..(parents_count - 1) : r + 4 * j < acc2})
           take == IF n > parents_count - Len(parents)
                   THEN parents_count - Len(parents) ELSE n
       IN StochasticLoop(w, parents_count, k + 1, acc2, r + 4 * take,
                         parents \o [j \in 1..take |-> k])

\* Selection.stochastic: 1.0/parents_count raises for parents_count = 0.
Stochastic(scores, parents_count) ==
  IF parents_count = 0 THEN {Raised("ZeroDivisionError")}
  ELSE {StochasticLoop(InverseScores(scores), parents_count, 0, 0, r0, << >>) :
          r0 \in Random}

\* Selection.sigma_scaling: with all weights equal (sigma == 0) the weight
\* becomes the scalar 1 and the wheel has the one index 0; otherwise every
\* weight is at least epsilon > 0.
SigmaScaling(scores, parents_count) ==
  LET w == InverseScores(scores)
  IN IF \A i \in 1..Len(w) : w[i] = w[1]
     THEN RouletteWheel(<<1>>, parents_count)
     ELSE RouletteWheel([i \in 1..Len(w) |-> 1], parents_count)

\* Selection.ranking: the wheel over the weights parents_count, ..., 1.
Ranking(scores, parents_count) ==
  RouletteWheel([i \in 1..parents_count |-> parents_count + 1 - i], parents_count)

\* Selection.linear_ranking with selection_pressure 1.5: tmp is 0 for
\* parents_count <= 1 and the division by it raises.  Otherwise
\* (a + sqrt(b + c*u))/d = ((2 - k) + sqrt((k - 2)^2 + 8*k*(k - 1)*u))/2
\* runs from 0 to k (excluded) as u runs over [0, 1), its rounding m is any
\* of 0..k, and indexes[-m] is index 0 for m = 0 and index k - m otherwise.
LinearRanking(scores, parents_count) ==
  IF parents_count * (parents_count - 1) = 0 THEN {Raised("ZeroDivisionError")}
  ELSE {Returned(s) : s \in [1..parents_count ->
                                {IF m = 0 THEN 0 ELSE parents_count - m :
                                   m \in 0..parents_count}]}

\* Selection.tournament with tau = 2: the smaller of two different indices of
\* 0..parents_count-1; np.random.choice raises ValueError when there are
\* fewer than tau of them and a draw is made.
Tournament(scores, parents_count) ==
  IF parents_count = 1 THEN {Raised("ValueError")}
  ELSE {Returned(s) : s \in [1..parents_count ->
                                {i \in 0..(parents_count - 1) :
                                   \E j \in 0..(parents_count - 1) : i < j}]}

SelectionTypes == {"fully_random", "roulette", "stochastic"}
OtherSelectionTypes == {"sigma_scaling", "ranking", "linear_ranking", "tournament"}

\* self.selection(scores, parents_count) for the strategy set_crossover_and_mutations chose.
Selection(selection_type, scores, parents_count) ==
  CASE selection_type = "fully_random" -> FullyRandom(scores, parents_count)
    [] selection_type = "roulette" -> Roulette(scores, parents_count)
    [] selection_type = "stochastic" -> Stochastic(scores, parents_count)
    [] selection_type = "sigma_scaling" -> SigmaScaling(scores, parents_count)
    [] selection_type = "ranking" -> Ranking(scores, parents_count)
    [] selection_type = "linear_ranking" -> LinearRanking(scores, parents_count)
    [] selection_type = "tournament" -> Tournament(scores, parents_count)

\* np.int8(x): the low 8 bits of x as a signed number.
Int8(x) == ((x + 128) % 256) - 128

\* pop[i] for a numpy index i of an array of n rows: a negative index counts
\* from the end; -1 here stands for IndexError.
RowIndex(i, n) == IF 0 <= i /\ i < n THEN i + 1
                  ELSE IF -n <= i /\ i < 0 THEN i + n + 1 ELSE -1

(***************************************************************************)
(* Crossover and mutation.                                                 *)
(***************************************************************************)
\* The positions whose genes the two offspring exchange.
SwapSets(crossover_type, n) ==
  CASE crossover_type = "one_point" -> {1..ran : ran \in 0..(n - 1)}
    [] crossover_type = "two_point" ->
         UNION {{(ran1 + 1)..ran2 : ran2 \in ran1..(n - 1)} : ran1 \in 0..(n - 1)}
    [] crossover_type = "uniform" -> SUBSET (1..n)
    [] crossover_type = "segment" -> SUBSET (1..n)
    [] crossover_type = "shuffle" -> {m \in SUBSET (1..n) : Cardinality(m) <= n - 1}

\* np.empty leaves the array as the memory was: whatever it holds is read.
\* Two of the values it can hold are followed.
Uninitialised == {0, 2}

\* np.random.uniform(x_min - delta, x_max + delta) with delta = alpha *
\* (x_max - x_min), alpha = 0.5: the whole numbers of that interval are
\* followed.
Expanded(lo, hi) ==
  {g \in (lo - (hi - lo))..(hi + (hi - lo)) :
     2 * lo - (hi - lo) <= 2 * g /\ 2 * g <= 2 * hi + (hi - lo)}

\* Crossover.mixed: x_min and x_max are the minimum and maximum of the new
\* arrays a and b, read before anything is written to them; x and y are
\* used for their size only.
Mixed(x, y) ==
  LET values == UNION {Expanded(lo, hi) : lo \in Uninitialised, hi \in Uninitialised}
      V == [1..Len(x) -> values]
  IN {ab \in V \X V :
        \A i \in 1..Len(x) :
           \E a0 \in Uninitialised, b0 \in Uninitialised :
              LET x_min == IF a0 <= b0 THEN a0 ELSE b0
                  x_max == IF a0 <= b0 THEN b0 ELSE a0
              IN ab[1][i] \in Expanded(x_min, x_max) /\ ab[2][i] \in Expanded(x_min, x_max)}

\* self.crossover(x, y): copies of x and y with the genes of one swap set
\* exchanged, or what Crossover.mixed returns.
Crossover(crossover_type, x, y) ==
  IF crossover_type = "mixed" THEN Mixed(x, y)
  ELSE {<<[i \in 1..Len(x) |-> IF i \in m THEN y[i] ELSE x[i]],
          [i \in 1..Len(x) |-> IF i \in m THEN x[i] ELSE y[i]]>> :
          m \in SwapSets(crossover_type, Len(x))}

\* What one gene can become when it is redrawn from `fresh` with probability
\* prob_mut: np.random.random() < prob_mut decides.
MutateGene(x, prob_mut, fresh) ==
  (IF \E r \in Random : ~(r < prob_mut) THEN {x} ELSE {}) \cup
  (IF \E r \in Random : r < prob_mut THEN fresh ELSE {})

\* Every vector whose gene i is one of choice[i].
Vectors(choice) ==
  {v \in [1..dim -> UNION {choice[i] : i \in 1..dim}] : \A i \in 1..dim : v[i] \in choice[i]}

\* self.mut(x): each integer gene redrawn from its whole range.
mut(x, prob_mut) ==
  Vectors([i \in 1..dim |-> MutateGene(x[i], prob_mut, GeneRange(i))])

\* self.mutmidle(x, p1, p2): each integer gene redrawn between the parents'
\* genes (np.random.randint leaves the larger one out), or from its whole
\* range when the parents agree.
mutmidle(x, p1, p2, prob_mut) ==
  Vectors([i \in 1..dim |->
    MutateGene(x[i], prob_mut,
               IF p1[i] < p2[i] THEN p1[i]..(p2[i] - 1)
               ELSE IF p1[i] > p2[i] THEN p2[i]..(p1[i] - 1)
               ELSE GeneRange(i))])

VARIABLES
  cfg,            \* the fields __init__ sets and run() never changes
  pop_s,          \* self.pop_s
  stop_mniwi,     \* self.stop_mniwi
  report,         \* self.report
  report_min,     \* self.report_min
  report_average, \* self.report_average
  best_function,  \* self.best_function
  best_variable,  \* self.best_variable
  output_dict,    \* self.output_dict
  args,           \* the arguments of the running call of run()
  pc,             \* the block of run() that runs next
  pop,            \* the local pop
  solo,           \* solo[self.dim], the fitness slot of the local solo
  t,              \* the local t
  counter,        \* the local counter
  new_par_inds,   \* the local new_par_inds
  par,            \* the local par
  ef_par,         \* the local ef_par
  pending,        \* rows of the running batch no worker has finished
  finished,       \* <<row, value>> of the workers that finished, in that order
  gens,           \* loop bodies this call has started
  tape,           \* the random draws of the first call, in order
  tapePos,        \* the next draw a replaying call takes
  mode,           \* "free", "record" or "replay"
  first,          \* what the first call left, kept for comparison
  same,           \* the replaying call has met every draw in the first call's state
  error           \* the exception that ended the call, "" while there is none

vars == <<cfg, pop_s, stop_mniwi, report, report_min, report_average,
          best_function, best_variable, output_dict, args, pc, pop, solo, t,
          counter, new_par_inds, par, ef_par, pending, finished, gens, tape,
          tapePos, mode, first, same, error>>

engine == <<cfg, pop_s, stop_mniwi>>
results == <<report, report_min, report_average, best_function, best_variable,
             output_dict>>
replay == <<tape, tapePos, mode, first, same>>
locals == <<pop, solo, t, counter, new_par_inds, par, ef_par, pending, finished,
            gens>>

(***************************************************************************)
(* The random source.  A call in mode "record" writes every draw, with the *)
(* state it was made in, on the tape; a call in mode "replay" takes its    *)
(* draws from the tape.                                                    *)
(***************************************************************************)
Digest == <<pop_s, pop, new_par_inds, par, ef_par, t, counter, solo>>

Draw(tag, d) ==
  CASE mode = "free" -> UNCHANGED replay
    [] mode = "record" ->
         /\ tape' = Append(tape, <<tag, d, Digest>>)
         /\ UNCHANGED <<tapePos, mode, first, same>>
    [] mode = "replay" ->
         /\ tapePos <= Len(tape)
         /\ tape[tapePos][1] = tag
         /\ tape[tapePos][2] = d
         /\ tapePos' = tapePos + 1
         /\ same' = (same /\ tape[tapePos][3] = Digest)
         /\ UNCHANGED <<tape, mode, first>>

\* The call ends with an exception, and its locals with it.
Raise(exception) ==
  /\ pc' = "raised"
  /\ error' = exception
  /\ pop' = << >>
  /\ solo' = 0
  /\ t' = 0
  /\ counter' = 0
  /\ new_par_inds' = << >>
  /\ par' = << >>
  /\ ef_par' = << >>
  /\ pending' = {}
  /\ finished' = << >>
  /\ gens' = gens

(***************************************************************************)
(* __init__                                                                *)
(***************************************************************************)
\* The fields __init__ derives from self.param, the algorithm_parameters.
Setup(function, param) ==
  [f |-> function,
   par_s |-> ParS(param.population_size, param.parents_portion),
   num_elit |-> NumElit(param.population_size, param.elit_ratio),
   prob_cross |-> param.crossover_probability,
   prob_mut |-> param.mutation_probability,
   iterate |-> param.max_num_iteration,
   mniwi |-> Mniwi(param.max_num_iteration, param.max_iteration_without_improv),
   selection_type |-> param.selection_type,
   crossover_type |-> param.crossover_type]

\* assert(self.par_s >= self.num_elit)
Accepted(population_size, parents_portion, elit_ratio) ==
  ParS(population_size, parents_portion) >= NumElit(population_size, elit_ratio)

\* The state __init__ leaves; the fields run() sets do not exist yet and hold
\* placeholders that nothing reads.
Constructed(population_size, config) ==
  /\ cfg = config
  /\ pop_s = population_size
  /\ stop_mniwi = FALSE
  /\ report = << >>
  /\ report_min = << >>
  /\ report_average = << >>
  /\ best_function = 0
  /\ best_variable = << >>
  /\ output_dict = << >>
  /\ pc = "idle"
  /\ pop = << >>
  /\ solo = 0
  /\ t = 0
  /\ counter = 0
  /\ new_par_inds = << >>
  /\ par = << >>
  /\ ef_par = << >>
  /\ pending = {}
  /\ finished = << >>
  /\ gens = 0
  /\ tape = << >>
  /\ tapePos = 1
  /\ first = << >>
  /\ same = TRUE
  /\ error = ""

(***************************************************************************)
(* run(): the initial population.                                          *)
(***************************************************************************)
\* run(set_function, apply_function_to_parents, start_generation) is called
\* with the arguments args.
Run ==
  /\ pc = "idle"
  /\ pc' = IF args.seeded THEN "seed" ELSE "init"
  /\ UNCHANGED <<engine, results, args, locals, replay, error>>

\* One pass of the loop that fills the random population: the genes are
\* drawn inside their bounds and self.sim gives the fitness.
InitRandomRow ==
  /\ pc = "init"
  /\ \E var \in Box :
       /\ Draw("init", var)
       /\ pop' = Append(pop, Row(var, f(var)))
       /\ solo' = f(var)
  /\ pc' = IF Len(pop') = pop_s THEN "reset" ELSE "init"
  /\ UNCHANGED <<engine, results, args, t, counter, new_par_inds, par, ef_par, pending,
                 finished, gens, error>>

\* self.sim: func_timeout stops an objective that runs longer than
\* funtimeout, and the assert on obj ends the call.
SimTimesOut ==
  /\ pc = "init"
  /\ cfg.f = "unreliable"
  /\ Raise("AssertionError: no output")
  /\ UNCHANGED <<engine, results, args, replay>>

\* self.sim: the assert on a result that is no number ends the call.
SimNotANumber ==
  /\ pc = "init"
  /\ cfg.f = "unreliable"
  /\ Raise("AssertionError: not a number")
  /\ UNCHANGED <<engine, results, args, replay>>

\* start_generation['variables'] is given: the population takes its rows and
\* self.pop_s its row count; the scores are taken or computed.
InitSeed ==
  /\ pc = "seed"
  /\ pop_s' = Len(args.variables)
  /\ IF args.has_scores /\ Len(args.scores) # Len(args.variables)
     THEN Raise("AssertionError: count of samples")
     ELSE /\ pop' = [i \in 1..Len(args.variables) |->
                       Row(args.variables[i], IF args.has_scores THEN args.scores[i] ELSE 0)]
          /\ pc' = IF args.has_scores THEN "reset" ELSE "eval_seed"
          /\ UNCHANGED <<solo, t, counter, new_par_inds, par, ef_par, pending, finished, gens, error>>
  /\ UNCHANGED <<cfg, stop_mniwi, results, args, replay>>

\* A variant of Reset: the reports of an earlier call are kept.
ResetKeepingReports ==
  /\ pc = "reset"
  /\ best_variable' = Genes(pop[Len(pop)])
  /\ best_function' = Fitness(pop[Len(pop)])
  /\ solo' = Fitness(pop[Len(pop)])
  /\ t' = 1
  /\ counter' = 0
  /\ pc' = IF 1 <= cfg.iterate THEN "sort" ELSE "final_sort"
  /\ UNCHANGED <<engine, report, report_min, report_average, output_dict, args,
                 pop, new_par_inds, par, ef_par, pending, finished, gens, replay,
                 error>>

\* The reports are emptied and the best record starts from obj and var: the
\* row evaluated last, or the last row of the seed.
Reset ==
  /\ pc = "reset"
  /\ report' = << >>
  /\ report_min' = << >>
  /\ report_average' = << >>
  /\ best_variable' = Genes(pop[Len(pop)])
  /\ best_function' = Fitness(pop[Len(pop)])
  /\ solo' = Fitness(pop[Len(pop)])
  /\ t' = 1
  /\ counter' = 0
  /\ pc' = IF 1 <= cfg.iterate THEN "sort" ELSE "final_sort"
  /\ UNCHANGED <<engine, output_dict, args, pop, new_par_inds, par, ef_par,
                 pending, finished, gens, replay, error>>

(***************************************************************************)
(* run(): set_function, the evaluation of a batch of rows.                 *)
(***************************************************************************)
Evaluating == pc \in {"eval_seed", "eval"}
Waiting == pc \in {"wait_seed", "wait"}
OfSeed == pc \in {"eval_seed", "wait_seed"}

\* A variant of BatchFirst: only the elites are left out of the batch.
BatchBehindElites ==
  IF OfSeed \/ args.apply_function_to_parents THEN 1 ELSE cfg.num_elit + 1

\* The rows handed to set_function: the whole seed, the whole population when
\* apply_function_to_parents, else the rows behind the parents.
BatchFirst == IF OfSeed \/ args.apply_function_to_parents THEN 1 ELSE cfg.par_s + 1
BatchRows == BatchFirst..Len(pop)
AfterBatch == IF OfSeed THEN "reset" ELSE "advance"

\* pop[first:, -1] = result: the j-th value goes to the j-th row of the batch.
WithScores(p, firstRow, result) ==
  [i \in 1..Len(p) |-> IF i >= firstRow THEN Row(Genes(p[i]), result[i - firstRow + 1])
                       ELSE p[i]]

\* default_set_function: the objective applied to each row in turn.
DefaultSetFunction(p, firstRow) ==
  [j \in 1..(Len(p) - firstRow + 1) |-> f(Genes(p[firstRow + j - 1]))]

EvaluateRows ==
  /\ Evaluating
  /\ args.set_function = "default"
  /\ pop' = WithScores(pop, BatchFirst, DefaultSetFunction(pop, BatchFirst))
  /\ pc' = AfterBatch
  /\ UNCHANGED <<engine, results, args, solo, t, counter, new_par_inds, par, ef_par, pending,
                 finished, gens, replay, error>>

\* Neither set_function bounds a call of the objective: one that does not
\* return leaves run() waiting.
ObjectiveHangs ==
  /\ Evaluating \/ (Waiting /\ pending # {})
  /\ cfg.f = "unreliable"
  /\ BatchRows # {}
  /\ pc' = "hung"
  /\ UNCHANGED <<engine, results, args, locals, replay, error>>

\* The objective returns an array of several numbers for a row: numpy cannot
\* write the result into the fitness column.
ObjectiveNotANumber ==
  /\ Evaluating \/ (Waiting /\ pending = {})
  /\ cfg.f = "unreliable"
  /\ BatchRows # {}
  /\ Raise("ValueError")
  /\ UNCHANGED <<engine, results, args, replay>>

\* set_function_multiprocess: Parallel hands every row of the batch to a worker.
Dispatch ==
  /\ Evaluating
  /\ args.set_function = "multiprocess"
  /\ pending' = BatchRows
  /\ finished' = << >>
  /\ pc' = IF OfSeed THEN "wait_seed" ELSE "wait"
  /\ UNCHANGED <<engine, results, args, pop, solo, t, counter, new_par_inds, par, ef_par,
                 gens, replay, error>>

\* A worker returns the objective's value for its row.
WorkerFinishes ==
  /\ Waiting
  /\ \E i \in pending :
       /\ finished' = Append(finished, <<i, f(Genes(pop[i]))>>)
       /\ pending' = pending \ {i}
  /\ UNCHANGED <<engine, results, args, pc, pop, solo, t, counter, new_par_inds, par, ef_par,
                 gens, replay, error>>

\* A variant of ParallelResult: the values in the order the workers finished.
CompletionOrder(done) == [j \in 1..Len(done) |-> done[j][2]]

\* Parallel(...)(...) returns the values in the order of its input: the j-th
\* value is the one of the j-th row handed over, whenever its worker finished.
ParallelResult(done) ==
  LET rows == {done[n][1] : n \in 1..Len(done)}
      jth(j) == CHOOSE i \in rows : Cardinality({r \in rows : r < i}) = j - 1
  IN [j \in 1..Len(done) |->
        done[CHOOSE n \in 1..Len(done) : done[n][1] = jth(j)][2]]

\* Parallel returns once every worker has finished.
Collect ==
  /\ Waiting
  /\ pending = {}
  /\ pop' = WithScores(pop, BatchFirst, ParallelResult(finished))
  /\ finished' = << >>
  /\ pc' = AfterBatch
  /\ UNCHANGED <<engine, results, args, solo, t, counter, new_par_inds, par, ef_par, pending,
                 gens, replay, error>>

(***************************************************************************)
(* run(): one generation.                                                  *)
(***************************************************************************)
\* pop = pop[pop[:,self.dim].argsort()], the first statement of the loop body.
Sort ==
  /\ pc = "sort"
  /\ pop' = SortByFitness(pop)
  /\ gens' = gens + 1
  /\ pc' = "update"
  /\ UNCHANGED <<engine, results, args, solo, t, counter, new_par_inds, par, ef_par, pending,
                 finished, replay, error>>

\* A variant of Improves: a tie counts as an improvement.
NotWorse(score, best) == score <= best

\* if pop[0,self.dim] < self.best_function
Improves(score, best) == score < best

\* The best record and the counter of generations without improvement, then
\* the three reports.
Update ==
  /\ pc = "update"
  /\ IF Improves(Fitness(pop[1]), best_function)
     THEN /\ counter' = 0
          /\ best_function' = Fitness(pop[1])
          /\ best_variable' = Genes(pop[1])
     ELSE /\ counter' = counter + 1
          /\ UNCHANGED <<best_function, best_variable>>
  /\ report' = Append(report, Fitness(pop[1]))
  /\ report_min' = Append(report_min, Fitness(pop[Len(pop)]))
  /\ report_average' = Append(report_average, Mean(Scores(pop)))
  /\ pc' = "select"
  /\ UNCHANGED <<engine, output_dict, args, pop, solo, t, new_par_inds, par, ef_par, pending,
                 finished, gens, replay, error>>

\* A variant of Parents: the elites are taken from the end of pop.
ParentsFromLastRows(p, num_elit, places) ==
  [i \in 1..num_elit |-> p[Len(p) - i + 1]] \o [i \in 1..Len(places) |-> p[places[i]]]

\* par after its two assignments: the first num_elit rows of pop, then the
\* rows of pop at the given places.
Parents(p, num_elit, places) ==
  SubSeq(p, 1, num_elit) \o [i \in 1..Len(places) |-> p[places[i]]]

\* The elites are copied and the selection strategy is asked for the other
\* par_s - num_elit parents; np.int8 converts the indices it returns.
SelectIndexes ==
  /\ pc = "select"
  /\ cfg.num_elit <= Len(pop)
  /\ \E choice \in Selection(cfg.selection_type, Scores(pop), cfg.par_s - cfg.num_elit) :
       /\ choice.ok
       /\ Draw("select", choice.idx)
       /\ new_par_inds' = [i \in 1..Len(choice.idx) |-> Int8(choice.idx[i])]
  /\ pc' = "parents"
  /\ UNCHANGED <<engine, results, args, pop, solo, t, counter, par, ef_par,
                 pending, finished, gens, error>>

\* pop[k] for an elite k that pop does not have raises IndexError.
EliteOutside ==
  /\ pc = "select"
  /\ cfg.num_elit > Len(pop)
  /\ Raise("IndexError")
  /\ UNCHANGED <<engine, results, args, replay>>

\* The selection strategy itself raises.
SelectRaises ==
  /\ pc = "select"
  /\ cfg.num_elit <= Len(pop)
  /\ \E choice \in Selection(cfg.selection_type, Scores(pop), cfg.par_s - cfg.num_elit) :
       /\ ~choice.ok
       /\ Raise(choice.exception)
  /\ UNCHANGED <<engine, results, args, replay>>

\* par[self.num_elit:self.par_s] = pop[new_par_inds].copy(): an index outside
\* pop raises IndexError.  new_par_inds is not read after this statement.
TakeParents ==
  /\ pc = "parents"
  /\ IF \E i \in 1..Len(new_par_inds) : RowIndex(new_par_inds[i], Len(pop)) = -1
     THEN Raise("IndexError")
     ELSE /\ par' = Parents(pop, cfg.num_elit,
                            [i \in 1..Len(new_par_inds) |->
                               RowIndex(new_par_inds[i], Len(pop))])
          /\ new_par_inds' = << >>
          /\ pc' = "eligible"
          /\ UNCHANGED <<pop, solo, t, counter, ef_par, pending, finished, gens,
                         error>>
  /\ UNCHANGED <<engine, results, args, replay>>

\* The results np.random.random(n) <= prob_cross can have: the sets of
\* positions marked, each position by a draw of Random.
Marks(n, prob_cross) ==
  {m \in SUBSET (1..n) :
     /\ m # {} => \E r \in Random : r <= prob_cross
     /\ m # 1..n => \E r \in Random : ~(r <= prob_cross)}

\* par[ef_par_list]: the marked rows, in their order.
Marked(rows, ef_par_list) ==
  LET ith(j) == CHOOSE i \in ef_par_list :
                  Cardinality({n \in ef_par_list : n < i}) = j - 1
  IN [j \in 1..Cardinality(ef_par_list) |-> rows[ith(j)]]

\* The parents that take part in crossover are marked, again while the draw
\* marks none.  Then the new pop starts with the rows of par.
Eligible ==
  /\ pc = "eligible"
  /\ \E ef_par_list \in Marks(cfg.par_s, cfg.prob_cross) :
       /\ Draw("eligible", ef_par_list)
       /\ IF ef_par_list = {}
          THEN UNCHANGED <<locals, pc, error>>
          ELSE IF cfg.par_s > pop_s
          THEN Raise("IndexError")
          ELSE /\ ef_par' = Marked(par, ef_par_list)
               /\ pop' = par
               /\ pc' = IF cfg.par_s = pop_s THEN "eval" ELSE "breed"
               /\ UNCHANGED <<solo, t, counter, new_par_inds, par, pending, finished,
                              gens, error>>
  /\ UNCHANGED <<engine, results, args>>

\* One pass of the loop that fills pop with offspring: two parents of ef_par,
\* their two children, mutated when prob_mut > 0, written to rows k and k + 1
\* with the fitness slot of solo.  The mutations draw in place, so mutmidle
\* sees the parents as they are after the crossover copied them.
BreedPair ==
  /\ pc = "breed"
  /\ \E r1, r2 \in 0..(Len(ef_par) - 1) :
       LET pvar1 == Genes(ef_par[r1 + 1])
           pvar2 == Genes(ef_par[r2 + 1])
       IN \E ch \in Crossover(cfg.crossover_type, pvar1, pvar2) :
            \E ch1 \in (IF cfg.prob_mut > 0 THEN mut(ch[1], cfg.prob_mut) ELSE {ch[1]}),
               ch2 \in (IF cfg.prob_mut > 0 THEN mutmidle(ch[2], pvar1, pvar2, cfg.prob_mut)
                        ELSE {ch[2]}) :
              /\ Draw("breed", <<r1, r2, ch, ch1, ch2>>)
              /\ IF Len(pop) + 2 <= pop_s
                 THEN /\ pop' = pop \o <<Row(ch1, solo), Row(ch2, solo)>>
                      /\ pc' = IF Len(pop') = pop_s THEN "eval" ELSE "breed"
                      /\ UNCHANGED <<solo, t, counter, new_par_inds, par, ef_par, pending,
                                     finished, gens, error>>
                 ELSE Raise("IndexError")
  /\ UNCHANGED <<engine, results, args>>

\* A variant of OutOfPatience: the patience itself is already too long.
PatienceReached(count, mniwi) == count >= mniwi

\* if counter > self.mniwi
OutOfPatience(count, mniwi) == count > mniwi

\* The end of the loop body: t moves on, and once counter is above mniwi a
\* population whose best row is no better than best_function ends the loop.
\* par and ef_par are not read again before the next pass assigns them.
Advance ==
  /\ pc = "advance"
  /\ IF OutOfPatience(counter, cfg.mniwi)
     THEN /\ pop' = SortByFitness(pop)
          /\ IF Fitness(pop'[1]) >= best_function
             THEN /\ t' = cfg.iterate + 1
                  /\ stop_mniwi' = TRUE
             ELSE /\ t' = t + 1
                  /\ UNCHANGED stop_mniwi
     ELSE /\ t' = t + 1
          /\ UNCHANGED <<pop, stop_mniwi>>
  /\ pc' = IF t' <= cfg.iterate THEN "sort" ELSE "final_sort"
  /\ par' = << >>
  /\ ef_par' = << >>
  /\ UNCHANGED <<cfg, pop_s, results, args, solo, counter, new_par_inds,
                 pending, finished, gens, replay, error>>

(***************************************************************************)
(* run(): after the loop.                                                  *)
(***************************************************************************)
FinalSort ==
  /\ pc = "final_sort"
  /\ pop' = SortByFitness(pop)
  /\ pc' = "final_report"
  /\ UNCHANGED <<engine, results, args, solo, t, counter, new_par_inds, par, ef_par, pending,
                 finished, gens, replay, error>>

\* The last update of the best record, the last entry of each report, and
\* output_dict.
FinalReport ==
  /\ pc = "final_report"
  /\ IF Fitness(pop[1]) < best_function
     THEN /\ best_function' = Fitness(pop[1])
          /\ best_variable' = Genes(pop[1])
     ELSE UNCHANGED <<best_function, best_variable>>
  /\ report' = Append(report, Fitness(pop[1]))
  /\ report_min' = Append(report_min, Fitness(pop[Len(pop)]))
  /\ report_average' = Append(report_average, Mean(Scores(pop)))
  /\ output_dict' = [variable |-> best_variable', function |-> best_function',
                     last_generation |->
                       [variables |-> [i \in 1..Len(pop) |-> Genes(pop[i])],
                        scores |-> Scores(pop)]]
  /\ pc' = "done"
  /\ UNCHANGED <<engine, args, locals, replay, error>>

(***************************************************************************)
(* The engine with one call of run().                                      *)
(*                                                                         *)
(* A scenario is <<population_size, the fields __init__ derives, the       *)
(* arguments of run()>>.  The scenarios are a union of slices, each the    *)
(* product of a few values for every parameter, kept only when __init__    *)
(* accepts it.  Runs that mutate are followed for one generation less than *)
(* runs that do not: they reach many more populations.                     *)
(***************************************************************************)
Patiences == {0, 1}

\* algorithm_parameters, one dictionary for every choice of the values.
Params(sizes, portions, elits, crosses, mutations, iterations, selections, crossovers) ==
  {[population_size |-> c[1], parents_portion |-> c[2], elit_ratio |-> c[3],
    crossover_probability |-> c[4], mutation_probability |-> c[5],
    max_num_iteration |-> c[6], max_iteration_without_improv |-> c[7],
    selection_type |-> c[8], crossover_type |-> c[9]] :
     c \in sizes \X portions \X elits \X crosses \X mutations \X iterations \X
           Patiences \X selections \X crossovers}

Slice(function, sizes, portions, elits, crosses, mutations, iterations, selections, crossovers, arguments) ==
  {<<c[1].population_size, Setup(function, c[1]), c[2]>> :
     c \in {d \in Params(sizes, portions, elits, crosses, mutations, iterations,
                          selections, crossovers) \X arguments :
              Accepted(d[1].population_size, d[1].parents_portion, d[1].elit_ratio)}}

\* start_generation: no seed, or a seed of gene vectors with or without scores.
NoSeed == [seeded |-> FALSE, variables |-> << >>, has_scores |-> FALSE, scores |-> << >>]
SeedVariables ==
  { << <<1, 1>> >>,
    << <<1, 1>>, <<2, 1>> >>,
    << <<2, 1>>, <<1, 1>>, <<2, 0>> >>,
    << <<2, 1>>, <<1, 0>>, <<2, 0>>, <<1, 1>> >> }
SeedScores(variables) ==
  { [i \in 1..Len(variables) |-> 0], [i \in 1..Len(variables) |-> f(variables[i])] }
Seeds ==
  {[seeded |-> TRUE, variables |-> v, has_scores |-> FALSE, scores |-> << >>] :
     v \in SeedVariables}
  \cup UNION {{[seeded |-> TRUE, variables |-> v, has_scores |-> TRUE, scores |-> sc] :
                 sc \in SeedScores(v)} : v \in SeedVariables}

Arguments(seeds, apply, set_functions) ==
  {[seeded |-> g.seeded, variables |-> g.variables, has_scores |-> g.has_scores,
    scores |-> g.scores, apply_function_to_parents |-> a, set_function |-> sf] :
     g \in seeds, a \in apply, sf \in set_functions}

Mutating ==
  Slice("np.sum", {3}, {<<3, 10>>}, {<<0, 1>>, <<1, 100>>}, {2}, {2}, 0..(MaxIter - 1),
        SelectionTypes, {"uniform"}, Arguments({NoSeed}, {FALSE}, {"default"}))

NotMutating ==
  Slice("np.sum", {3, 4}, {<<3, 10>>}, {<<0, 1>>, <<1, 100>>}, {2}, {0}, 0..MaxIter,
        SelectionTypes, {"one_point", "uniform"},
        Arguments({NoSeed}, {FALSE}, {"default"}))

\* The parameters at the ends of their ranges, and the other crossovers.
Edges ==
  Slice("np.sum", {4}, {<<0, 1>>, <<1, 1>>}, {<<0, 1>>, <<1, 2>>}, {2, 4}, {0}, 0..1,
        {"roulette"}, {"two_point", "shuffle"},
        Arguments({NoSeed}, BOOLEAN, {"default"}))

Seeded ==
  Slice("np.sum", {4}, {<<3, 10>>}, {<<0, 1>>, <<1, 100>>}, {2}, {0}, 0..MaxIter,
        {"roulette", "fully_random"}, {"uniform"},
        Arguments(Seeds, BOOLEAN, {"default"}))

\* Half of the configured population is elite; the seed may have fewer rows.
Shrunk ==
  Slice("np.sum", {4}, {<<1, 2>>}, {<<1, 2>>}, {2}, {0}, {1}, {"roulette"},
        {"uniform"}, Arguments(Seeds, {FALSE}, {"default"}))

\* The other selection strategies, asked for 0, 1, 2 and 3 parents.
Strategies ==
  Slice("np.sum", {3, 4}, {<<3, 10>>, <<1, 1>>}, {<<1, 100>>, <<1, 2>>}, {2}, {0}, {1},
        OtherSelectionTypes, {"uniform"}, Arguments({NoSeed}, {FALSE}, {"default"}))

Parallel ==
  Slice("np.sum", {3}, {<<3, 10>>}, {<<1, 100>>}, {2}, {2}, 0..1, {"roulette"},
        {"uniform"}, Arguments({NoSeed} \cup Seeds, BOOLEAN, {"multiprocess"}))

\* An objective that may take for ever, or return an array, on any call.
Unreliable ==
  Slice("unreliable", {3}, {<<3, 10>>}, {<<1, 100>>}, {2}, {2}, 0..1, {"roulette"},
        {"uniform"},
        Arguments({NoSeed} \cup Seeds, {FALSE}, {"default", "multiprocess"}))

Scenarios == Mutating \cup NotMutating \cup Edges \cup Seeded \cup Shrunk \cup Strategies \cup Parallel \cup Unreliable

Init ==
  /\ mode = "free"
  /\ \E s \in Scenarios :
       /\ Constructed(s[1], s[2])
       /\ args = s[3]

Next ==
  \/ Run
  \/ InitRandomRow
  \/ SimTimesOut
  \/ SimNotANumber
  \/ InitSeed
  \/ Reset
  \/ EvaluateRows
  \/ ObjectiveHangs
  \/ ObjectiveNotANumber
  \/ Dispatch
  \/ WorkerFinishes
  \/ Collect
  \/ Sort
  \/ Update
  \/ SelectIndexes
  \/ EliteOutside
  \/ SelectRaises
  \/ TakeParents
  \/ Eligible
  \/ BreedPair
  \/ Advance
  \/ FinalSort
  \/ FinalReport

Spec == Init /\ [][Next]_vars

(***************************************************************************)
(* Properties of one call of run().                                        *)
(***************************************************************************)
InLoop == {"sort", "update", "select", "parents", "eligible", "breed", "eval",
           "wait", "advance"}
LoopLeft == {"final_sort", "final_report", "done"}

NonIncreasing(s) == \A i \in 1..(Len(s) - 1) : s[i + 1] <= s[i]

\* C1, as the claim states it: for every accepted configuration every entry
\* of report is at most the entry recorded before it.
ReportNonIncreasing == NonIncreasing(report)

\* The scores given with a seed are the objective's values of its rows.
SeedScoresTrue ==
  args.has_scores =>
     \A i \in 1..Len(args.variables) : args.scores[i] = f(args.variables[i])

\* C1, restricted: when at least one elite is kept (num_elit >= 1) and a
\* re-evaluation of the parents cannot change a stored fitness (parents are
\* not re-evaluated, or the scores of the seed are the objective's values),
\* every entry of report is at most the entry before it.
ElitistReportNonIncreasing ==
  (cfg.num_elit >= 1 /\ (args.apply_function_to_parents => SeedScoresTrue)) =>
     NonIncreasing(report)

\* An elitist call has ended with three or more entries, the last below the
\* first.
ElitistReportDecreased ==
  /\ pc = "done"
  /\ cfg.num_elit >= 1
  /\ ~args.apply_function_to_parents
  /\ Len(report) >= 3
  /\ report[Len(report)] < report[1]

\* C2: inside the loop the best record and the counter change only in the
\* update of a generation; there the record is overwritten by row 0 of the
\* sorted population, and the counter set to 0, exactly when the fitness of
\* row 0 is strictly below best_function, and otherwise the record stays
\* and the counter grows by exactly 1.
BestRecordRule ==
  [][(pc \in InLoop /\ pc' # "raised") =>
       IF pc = "update"
       THEN IF Fitness(pop[1]) < best_function
            THEN /\ best_function' = Fitness(pop[1])
                 /\ best_variable' = Genes(pop[1])
                 /\ counter' = 0
            ELSE /\ best_function' = best_function
                 /\ best_variable' = best_variable
                 /\ counter' = counter + 1
       ELSE /\ best_function' = best_function
            /\ best_variable' = best_variable
            /\ counter' = counter]_vars

\* The first generation improved the record and the second, whose best row
\* ties with it, did not.
ImprovedThenTied ==
  /\ pc = "select"
  /\ Len(report) = 2
  /\ counter = 1
  /\ report[2] = best_function

\* C3: where run() reads the population for the best record, the reports,
\* the elites, the selection or the output, the fitness column is ascending,
\* so row 0 holds the least fitness.
PopulationSorted ==
  /\ pc \in {"update", "select", "parents", "final_report"} =>
        /\ IsSorted(pop)
        /\ \A i \in 1..Len(pop) : Fitness(pop[1]) <= Fitness(pop[i])
  /\ pc = "done" => NonIncreasing([i \in 1..Len(pop) |->
                                    output_dict.last_generation.scores[Len(pop) + 1 - i]])

\* The second generation is read with rows of different fitness, the rows
\* behind the parents having been bred after the first sort.
SortedAfterBreeding ==
  /\ pc = "update"
  /\ gens = 2
  /\ Fitness(pop[1]) < Fitness(pop[Len(pop)])
  /\ Fitness(pop[1]) < best_function

\* C4: run() leaves the loop after fewer than iterate generations only with
\* stop_mniwi set, and stop_mniwi is set only when the counter is strictly
\* above mniwi and the best row of the new population is not strictly below
\* best_function; without that the loop runs exactly iterate generations.
\* With mniwi = iterate + 1 (no patience configured) stop_mniwi is never set.
StagnationRule ==
  /\ pc \in LoopLeft =>
        /\ gens <= cfg.iterate
        /\ ~stop_mniwi => gens = cfg.iterate
        /\ stop_mniwi => counter > cfg.mniwi
        /\ (stop_mniwi /\ pc = "final_sort") => Fitness(pop[1]) >= best_function
  /\ cfg.mniwi = cfg.iterate + 1 => ~stop_mniwi

\* The loop was left with part of the budget unused.
StoppedEarly ==
  /\ pc = "final_sort"
  /\ stop_mniwi
  /\ gens < cfg.iterate
  /\ counter = cfg.mniwi + 1

\* C5, as the claim states it: in every generation, seeded or not,
\* 0 <= par_s <= pop_s and pop_s - par_s is even, and no row outside the
\* population is accessed.
ParentsFitPopulation ==
  /\ pc \in InLoop => /\ 0 <= cfg.par_s
                      /\ cfg.par_s <= pop_s
                      /\ (pop_s - cfg.par_s) % 2 = 0
  /\ error # "IndexError"

\* C6, as the claim states it: no call of the objective leaves run() waiting
\* for ever.
EveryCallBounded == pc # "hung"

\* C7: no block of the loop other than the evaluation runs while a worker
\* of the batch has not been collected, and after a batch of
\* set_function_multiprocess the fitness of every row of the batch is the
\* objective of that row's own genes.
BatchWrittenInRowOrder ==
  /\ pc \notin {"eval", "wait", "eval_seed", "wait_seed", "hung"} =>
        (pending = {} /\ finished = << >>)
  /\ (args.set_function = "multiprocess" /\ pc = "advance") =>
        \A i \in (IF args.apply_function_to_parents THEN 1 ELSE cfg.par_s + 1)..Len(pop) :
           Fitness(pop[i]) = f(Genes(pop[i]))
  /\ (args.set_function = "multiprocess" /\ pc = "reset" /\ args.seeded
        /\ ~args.has_scores) =>
        \A i \in 1..Len(pop) : Fitness(pop[i]) = f(Genes(pop[i]))

\* Every worker of a batch has finished, a later row before an earlier one
\* and with a different value.
FinishedOutOfOrder ==
  /\ pc = "wait"
  /\ pending = {}
  /\ \E m, n \in 1..Len(finished) :
       /\ m < n
       /\ finished[m][1] > finished[n][1]
       /\ finished[m][2] # finished[n][2]

\* The corner of the box with every gene at its lower bound.
LowerBounds == [i \in 1..dim |-> var_bound[i][1]]

\* C8: with the objective np.sum over an integer box and a random first
\* population, the best reported is never below the sum of the lower
\* bounds, it is the objective of the vector reported, that vector is in
\* the box, and the sum of the lower bounds is reported only for the vector
\* of the lower bounds.
SumNeverBelowLowerBounds ==
  (cfg.f = "np.sum" /\ ~args.seeded /\ pc = "done") =>
     /\ best_function >= SumSeq(LowerBounds)
     /\ best_variable \in Box
     /\ best_function = f(best_variable)
     /\ output_dict.function = best_function
     /\ output_dict.variable = best_variable
     /\ best_function = SumSeq(LowerBounds) <=> best_variable = LowerBounds

\* A call that did not have the vector of the lower bounds in its first
\* generation reports it as the best.
OptimumReported ==
  /\ pc = "done"
  /\ cfg.f = "np.sum"
  /\ ~args.seeded
  /\ best_variable = LowerBounds
  /\ best_function = SumSeq(LowerBounds)
  /\ report[1] > SumSeq(LowerBounds)

\* C9, as the claim states it: fully_random returns to run() only when the
\* count asked for is at most the size of the pool, and then with that many
\* pairwise distinct indices inside the pool.
FullyRandomValidates ==
  (pc = "parents" /\ cfg.selection_type = "fully_random") =>
     /\ cfg.par_s - cfg.num_elit <= Len(pop)
     /\ Len(new_par_inds) = cfg.par_s - cfg.num_elit
     /\ \A i \in 1..Len(new_par_inds) : new_par_inds[i] \in 0..(Len(pop) - 1)
     /\ \A i, j \in 1..Len(new_par_inds) : i # j => new_par_inds[i] # new_par_inds[j]

(***************************************************************************)
(* The engine with two calls of run() on the same object.                  *)
(*                                                                         *)
(* The first call records its draws; the second call gets the same         *)
(* arguments and takes its draws from the tape.  Nothing else is given to  *)
(* the second call: the fields of the object are as the first call left    *)
(* them.                                                                   *)
(***************************************************************************)
\* What a call leaves on the object for its caller.
Left == <<report, report_min, report_average, best_function, best_variable,
          output_dict>>

\* The second call of run(): new locals, the fields as they are.
RunAgain ==
  /\ pc = "done"
  /\ mode = "record"
  /\ mode' = "replay"
  /\ first' = Left
  /\ tapePos' = 1
  /\ pop' = << >>
  /\ solo' = 0
  /\ t' = 0
  /\ counter' = 0
  /\ new_par_inds' = << >>
  /\ par' = << >>
  /\ ef_par' = << >>
  /\ pending' = {}
  /\ finished' = << >>
  /\ gens' = 0
  /\ pc' = IF args.seeded THEN "seed" ELSE "init"
  /\ UNCHANGED <<engine, results, args, tape, same, error>>

\* Every parent is marked for crossover (crossover_probability 1), so the
\* number of draws of a call is bounded.
Twice ==
  Slice("np.sum", {3}, {<<3, 10>>}, {<<1, 100>>}, {4}, {0}, 1..2, {"roulette"},
        {"uniform"}, Arguments({NoSeed}, BOOLEAN, {"default"}))
  \cup
  Slice("np.sum", {4}, {<<3, 10>>}, {<<1, 100>>}, {4}, {0}, 1..2, {"roulette"},
        {"uniform"},
        Arguments({s \in Seeds : Len(s.variables) = 4}, {FALSE}, {"default"}))
  \cup
  Slice("np.sum", {4}, {<<3, 10>>}, {<<1, 100>>}, {4}, {2}, {1}, {"roulette"},
        {"uniform"},
        Arguments({s \in Seeds : Len(s.variables) = 4 /\ ~s.has_scores}, {FALSE},
                  {"default"}))

InitReplay ==
  /\ mode = "record"
  /\ \E s \in Twice : /\ Constructed(s[1], s[2])
                       /\ args = s[3]

NextReplay ==
  \/ Run
  \/ InitRandomRow
  \/ InitSeed
  \/ Reset
  \/ EvaluateRows
  \/ Sort
  \/ Update
  \/ SelectIndexes
  \/ TakeParents
  \/ Eligible
  \/ BreedPair
  \/ Advance
  \/ FinalSort
  \/ FinalReport
  \/ RunAgain

SpecReplay == InitReplay /\ [][NextReplay]_vars

\* The blocks of run() that draw; each writes its own name on the tape.
Drawing == {"init", "select", "eligible", "breed"}

\* C10: a second call of run() on the same object, with the same arguments
\* and the same draws, comes to every draw in the state the first call made
\* it in, and ends with the same report, report_min, report_average,
\* best_function, best_variable and output_dict as the first call, every
\* draw of the first call taken.
SecondRunRepeatsFirst ==
  mode = "replay" =>
     /\ same
     /\ pc \in Drawing => /\ tapePos <= Len(tape)
                          /\ tape[tapePos][1] = pc
                          /\ tape[tapePos][3] = Digest
     /\ pc = "done" => (Left = first /\ tapePos = Len(tape) + 1)

\* The second call has ended, after a first call that stopped for lack of
\* improvement and left stop_mniwi set.
SecondRunEnded ==
  /\ mode = "replay"
  /\ pc = "done"
  /\ stop_mniwi
  /\ Len(report) >= 2
  /\ tapePos > 4

(***************************************************************************)
(* More properties of one call of run().                                   *)
(***************************************************************************)
\* C11: without apply_function_to_parents, the first num_elit rows of the
\* parent pool are the first rows of the sorted population it was taken
\* from, the first par_s rows of the new population are the parent pool,
\* genes and fitness, from the moment they are copied until the generation
\* ends, and only rows behind them are handed to the objective.
ParentsCarriedOver ==
  /\ pc = "eligible" =>
        \A i \in 1..cfg.num_elit : par[i] = pop[i]
  /\ (pc \in {"breed", "eval", "wait", "advance"} /\ ~args.apply_function_to_parents) =>
        /\ Len(par) = cfg.par_s
        /\ \A i \in 1..cfg.par_s : pop[i] = par[i]
  /\ (pc = "wait" /\ ~args.apply_function_to_parents) =>
        /\ pending \subseteq (cfg.par_s + 1)..Len(pop)
        /\ \A n \in 1..Len(finished) : finished[n][1] > cfg.par_s

\* A generation has been evaluated: the elite kept a fitness that is not
\* the objective of its genes, and an offspring row is no copy of a parent.
StaleFitnessCarried ==
  /\ pc = "advance"
  /\ ~args.apply_function_to_parents
  /\ cfg.num_elit >= 1
  /\ cfg.par_s >= 2
  /\ Fitness(pop[1]) # f(Genes(pop[1]))
  /\ \E i \in (cfg.par_s + 1)..Len(pop) :
       \A j \in 1..cfg.par_s : Genes(pop[i]) # Genes(par[j])

\* C12, as the claim states it: in every generation of every accepted
\* configuration some draw of the eligible parents marks at least one, so
\* the loop that repeats the draw can end.
EligibleDrawCanEnd ==
  pc = "eligible" => \E m \in Marks(cfg.par_s, cfg.prob_cross) : m # {}

\* C13, as the claim states it: asked by run() for k parents of a sorted
\* pool of n >= 1 rows, 0 <= k <= n, the selection strategy raises nothing
\* and returns exactly k indices, each in 0..n-1.
SelectionReturnsIndexes ==
  LET k == cfg.par_s - cfg.num_elit
      n == Len(pop)
  IN (pc = "select" /\ n >= 1 /\ 0 <= k /\ k <= n /\ IsSorted(pop)) =>
        \A choice \in Selection(cfg.selection_type, Scores(pop), k) :
           /\ choice.ok
           /\ Len(choice.idx) = k
           /\ \A i \in 1..k : choice.idx[i] \in 0..(n - 1)

\* How often the index i is among the indices returned.
Times(indexes, i) == Cardinality({n \in 1..Len(indexes) : indexes[n] = i})

\* C14, as the claim states it: the indices stochastic returns for the
\* inverted scores w are non-decreasing, and the number of times an index i
\* is returned differs from k * w[i] / sum(w) by less than 1.
StochasticLowVariance ==
  (pc = "parents" /\ cfg.selection_type = "stochastic") =>
     LET w == InverseScores(Scores(pop))
         k == Len(new_par_inds)
     IN /\ \A n \in 1..(k - 1) : new_par_inds[n] <= new_par_inds[n + 1]
        /\ \A i \in 1..Len(w) :
             LET d == Times(new_par_inds, i - 1) * SumSeq(w) - k * w[i]
             IN -SumSeq(w) < d /\ d < SumSeq(w)

(***************************************************************************)
(* The engine with Crossover.mixed() given as the crossover function.      *)
(***************************************************************************)
WithMixed ==
  Slice("np.sum", {3}, {<<3, 10>>}, {<<1, 100>>}, {2}, {0}, {1}, {"roulette"}, {"mixed"},
        Arguments({NoSeed}, {FALSE}, {"default"}))

InitMixed ==
  /\ mode = "free"
  /\ \E s \in WithMixed : /\ Constructed(s[1], s[2])
                           /\ args = s[3]

NextMixed ==
  \/ Run
  \/ InitRandomRow
  \/ Reset
  \/ EvaluateRows
  \/ Sort
  \/ Update
  \/ SelectIndexes
  \/ TakeParents
  \/ Eligible
  \/ BreedPair
  \/ Advance
  \/ FinalSort
  \/ FinalReport

SpecMixed == InitMixed /\ [][NextMixed]_vars

\* C15, as the claim states it: every gene i of an offspring of
\* mixed(0.5) lies in [min(x_i, y_i) - d_i/2, max(x_i, y_i) + d_i/2], d_i
\* the distance of x_i and y_i, for the two parents x and y it was bred
\* from; here for some two rows of ef_par, which are all the parents there
\* are.
MixedWithinParents ==
  (pc \in {"breed", "eval"} /\ cfg.crossover_type = "mixed") =>
     \A k \in (cfg.par_s + 1)..Len(pop) :
        \E r1 \in 1..Len(ef_par), r2 \in 1..Len(ef_par) :
           \A i \in 1..dim :
              LET x == ef_par[r1][i]
                  y == ef_par[r2][i]
              IN pop[k][i] \in Expanded(IF x <= y THEN x ELSE y, IF x <= y THEN y ELSE x)

(***************************************************************************)
(* Genes and their bounds.  The runs above have integer variables only; a  *)
(* real variable meets the mutations of class Mutations, taken here one    *)
(* gene at a time, a real number standing on a grid of step 1.             *)
(***************************************************************************)
\* np.random.uniform(low, high), either argument the larger.
Uniform(low, high) == IF low <= high THEN low..high ELSE high..low

\* A variant of Clip: the number as it was drawn.
Unclipped(v, left, right) == v

\* max(left, min(right, v))
Clip(v, left, right) ==
  LET m == IF right < v THEN right ELSE v
  IN IF left > m THEN left ELSE m

\* np.random.normal(loc, scale): any number, loc itself when scale is 0.
Normal(loc, std, left, right) ==
  IF std = 0 THEN {loc} ELSE (left - 1)..(right + 1)

\* self.real_mutation(x, left, right) for the four names of mutation_type;
\* the standard deviation 0.3 * (right - left) is 0 only when right = left.
RealMutation(mutation_type, x, left, right) ==
  CASE mutation_type = "uniform_by_x" ->
         LET alp == IF x - left < right - x THEN x - left ELSE right - x
         IN Uniform(x - alp, x + alp)
    [] mutation_type = "uniform_by_center" -> Uniform(left, right)
    [] mutation_type = "gauss_by_x" ->
         {Clip(v, left, right) : v \in Normal(x, right - left, left, right)}
    [] mutation_type = "gauss_by_center" ->
         {Clip(v, left, right) : v \in Normal(left, right - left, left, right)}

MutationTypes == {"uniform_by_x", "uniform_by_center", "gauss_by_center", "gauss_by_x"}
RealBounds == {<<0, 2>>, <<1, 4>>, <<2, 2>>}

\* One real gene x of an offspring within its bounds, the genes p1 and p2 of
\* its parents at the same place: solo holds x, par holds <<p1, p2>>.
RealGene(mutation_type, b, x, p1, p2) ==
  /\ cfg = [mutation_type |-> mutation_type, var_bound |-> b, prob_mut |-> 2]
  /\ pc = "gene"
  /\ solo = x
  /\ par = <<p1, p2>>
  /\ args = NoSeed
  /\ pop_s = 0
  /\ stop_mniwi = FALSE
  /\ report = << >>
  /\ report_min = << >>
  /\ report_average = << >>
  /\ best_function = 0
  /\ best_variable = << >>
  /\ output_dict = << >>
  /\ pop = << >>
  /\ t = 0
  /\ counter = 0
  /\ new_par_inds = << >>
  /\ ef_par = << >>
  /\ pending = {}
  /\ finished = << >>
  /\ gens = 0
  /\ tape = << >>
  /\ tapePos = 1
  /\ first = << >>
  /\ same = TRUE
  /\ error = ""

\* self.mut(x), a real gene: x[i] = self.real_mutation(x[i], lb, ub)
MutReal ==
  /\ pc = "gene"
  /\ \E r \in Random : r < cfg.prob_mut
  /\ \E v \in RealMutation(cfg.mutation_type, solo, cfg.var_bound[1], cfg.var_bound[2]) :
       solo' = v
  /\ pc' = "mutated"
  /\ UNCHANGED <<engine, results, replay, args, pop, t, counter, new_par_inds, par,
                 ef_par, pending, finished, gens, error>>

\* self.mutmidle(x, p1, p2), a real gene.
MutmidleReal ==
  /\ pc = "gene"
  /\ \E r \in Random : r < cfg.prob_mut
  /\ \E v \in (IF par[1] # par[2] THEN Uniform(par[1], par[2])
               ELSE Uniform(cfg.var_bound[1], cfg.var_bound[2])) :
       solo' = v
  /\ pc' = "mutated"
  /\ UNCHANGED <<engine, results, replay, args, pop, t, counter, new_par_inds, par,
                 ef_par, pending, finished, gens, error>>

\* Runs from a random population that cross two parents with each of the
\* named crossovers and mutate the offspring.
NamedCrossovers == {"one_point", "two_point", "uniform", "segment", "shuffle"}
Bred ==
  Slice("np.sum", {4}, {<<1, 2>>}, {<<0, 1>>}, {2}, {2}, {1}, {"roulette"},
        NamedCrossovers, Arguments({NoSeed}, {FALSE}, {"default"}))

InitGenes ==
  /\ mode = "free"
  /\ \/ \E s \in Bred : /\ Constructed(s[1], s[2])
                         /\ args = s[3]
     \/ \E m \in MutationTypes, b \in RealBounds :
          \E x \in b[1]..b[2], p1 \in b[1]..b[2], p2 \in b[1]..b[2] :
             RealGene(m, b, x, p1, p2)

NextGenes ==
  \/ Run
  \/ InitRandomRow
  \/ Reset
  \/ EvaluateRows
  \/ Sort
  \/ Update
  \/ SelectIndexes
  \/ TakeParents
  \/ Eligible
  \/ BreedPair
  \/ Advance
  \/ FinalSort
  \/ FinalReport
  \/ MutReal
  \/ MutmidleReal

SpecGenes == InitGenes /\ [][NextGenes]_vars

\* C16: starting from a randomly initialised population, under each named
\* crossover and each built-in mutation every gene of every individual lies
\* within the bounds of its variable, and the gene of an integer variable is
\* an integer: every row of the population, of the parents and of the
\* reported best is a vector of the box of integer vectors within var_bound,
\* and a mutated real gene lies between its two bounds.
GenesWithinBounds ==
  /\ pc = "mutated" => (cfg.var_bound[1] <= solo /\ solo <= cfg.var_bound[2])
  /\ (/\ pc \notin {"gene", "mutated", "idle", "raised"}
      /\ ~args.seeded
      /\ cfg.crossover_type \in NamedCrossovers) =>
        /\ \A k \in 1..Len(pop) : Genes(pop[k]) \in Box
        /\ \A k \in 1..Len(par) : Genes(par[k]) \in Box
        /\ \A k \in 1..Len(ef_par) : Genes(ef_par[k]) \in Box
        /\ (pc = "done" => output_dict.variable \in Box)

\* An offspring crossed by segment and mutated whose genes are those of no
\* parent.
MutatedOffspringWithinBounds ==
  /\ pc = "eval"
  /\ cfg.crossover_type = "segment"
  /\ cfg.prob_mut > 0
  /\ gens >= 1
  /\ \E k \in (cfg.par_s + 1)..Len(pop) :
       \A r \in 1..Len(ef_par) : Genes(pop[k]) # Genes(ef_par[r])

(***************************************************************************)
(* Populations of more rows than a signed byte counts.  The call starts    *)
(* from a generation given with its scores, a different score in every     *)
(* row, and is followed up to the parent pool of its first generation.     *)
(***************************************************************************)
WideSizes == {100, 130}

WideSeed(n) ==
  [seeded |-> TRUE, variables |-> [i \in 1..n |-> <<1, 0>>], has_scores |-> TRUE,
   scores |-> [i \in 1..n |-> i]]

Wide ==
  UNION {Slice("np.sum", {n}, {<<1, 50>>}, {<<0, 1>>}, {2}, {0}, {1}, {"roulette"},
               {"uniform"}, Arguments({WideSeed(n)}, {FALSE}, {"default"})) :
           n \in WideSizes}

InitWide ==
  /\ mode = "record"
  /\ \E s \in Wide : /\ Constructed(s[1], s[2])
                      /\ args = s[3]

NextWide ==
  \/ Run
  \/ InitSeed
  \/ Reset
  \/ Sort
  \/ Update
  \/ SelectIndexes
  \/ TakeParents

SpecWide == InitWide /\ [][NextWide]_vars

\* C17, as the claim states it: every non-elite row of the parent pool is
\* the row of the sorted population at the index the selection strategy
\* returned, which is the last entry of the tape.
ParentRowsAsReturned ==
  (pc = "eligible" /\ mode = "record") =>
     LET returned == tape[Len(tape)][2]
     IN /\ tape[Len(tape)][1] = "select"
        /\ Len(returned) = cfg.par_s - cfg.num_elit
        /\ \A j \in 1..Len(returned) : par[cfg.num_elit + j] = pop[returned[j] + 1]

(***************************************************************************)
(* Two calls of run() on the same object, each with its own draws.         *)
(***************************************************************************)
\* The next call of run(): new locals, the fields as they are; first keeps
\* what the call before left.
RunOnceMore ==
  /\ pc = "done"
  /\ mode = "free"
  /\ first = << >>
  /\ first' = Left
  /\ pop' = << >>
  /\ solo' = 0
  /\ t' = 0
  /\ counter' = 0
  /\ new_par_inds' = << >>
  /\ par' = << >>
  /\ ef_par' = << >>
  /\ pending' = {}
  /\ finished' = << >>
  /\ gens' = 0
  /\ pc' = IF args.seeded THEN "seed" ELSE "init"
  /\ UNCHANGED <<engine, results, args, tape, tapePos, mode, same, error>>

\* A generation of three equal rows away from the optimum: there is one
\* parent, and only a mutation brings an improvement.
EqualRows ==
  [seeded |-> TRUE, variables |-> [i \in 1..3 |-> <<2, 1>>], has_scores |-> TRUE,
   scores |-> [i \in 1..3 |-> 3]]

\* max_iteration_without_improv is given: a call can stop early.
Repeated ==
  {s \in Slice("np.sum", {3}, {<<3, 10>>}, {<<1, 100>>}, {2}, {2}, {3}, {"roulette"},
               {"uniform"}, Arguments({EqualRows}, {FALSE}, {"default"})) :
     s[2].mniwi <= s[2].iterate}

InitRepeated ==
  /\ mode = "free"
  /\ \E s \in Repeated : /\ Constructed(s[1], s[2])
                          /\ args = s[3]

NextRepeated ==
  \/ Run
  \/ InitSeed
  \/ Reset
  \/ EvaluateRows
  \/ Sort
  \/ Update
  \/ SelectIndexes
  \/ TakeParents
  \/ Eligible
  \/ BreedPair
  \/ Advance
  \/ FinalSort
  \/ FinalReport
  \/ RunOnceMore

SpecRepeated == InitRepeated /\ [][NextRepeated]_vars

\* C18, as the claim states it: a call of run() that has ended has
\* stop_mniwi set, and writes the warning, only when its own counter of
\* generations without improvement went above mniwi, and always when it
\* made fewer generations than its budget.
StagnationReportedOfThisRun ==
  pc = "done" =>
     /\ stop_mniwi => counter > cfg.mniwi
     /\ gens < cfg.iterate => stop_mniwi

(***************************************************************************)
(* The best record of one call of run().                                   *)
(***************************************************************************)
\* The generation at hand has been compared with the best record.
Compared == {"select", "parents", "eligible", "breed", "eval", "done"}

\* C19: best_function is at most the fitness of every row of every
\* generation once that generation has been compared with it, it never
\* grows after the reports are reset, and whenever the record changes it
\* becomes the fitness and the genes of one row of the population; when
\* run() returns, output_dict holds that record, which is at most every
\* score of last_generation and every entry of report.
BestBelowEveryGeneration ==
  /\ [](pc \in Compared => \A k \in 1..Len(pop) : best_function <= Fitness(pop[k]))
  /\ [](pc = "done" =>
          /\ output_dict.function = best_function
          /\ output_dict.variable = best_variable
          /\ \A k \in 1..Len(output_dict.last_generation.scores) :
               output_dict.function <= output_dict.last_generation.scores[k]
          /\ \A i \in 1..Len(report) : output_dict.function <= report[i])
  /\ [][/\ (pc \in InLoop \cup LoopLeft /\ pc' # "raised") =>
              best_function' <= best_function
        /\ (best_function' # best_function \/ best_variable' # best_variable) =>
              \E k \in 1..Len(pop') : /\ best_function' = Fitness(pop'[k])
                                      /\ best_variable' = Genes(pop'[k])]_vars

\* run() has returned a best fitness below every score of its last
\* generation: the row that carried it, found in a generation after the
\* first, was not kept.
BestRowNotKept ==
  /\ pc = "done"
  /\ \A k \in 1..Len(output_dict.last_generation.scores) :
       output_dict.function < output_dict.last_generation.scores[k]
  /\ output_dict.function < report[1]
====
